---- MODULE Spec2Model ----
(***************************************************************************)
(* A model of the Colorful Todo application                                *)
(* (src/agents/generated_project/script.js): the in-memory collection      *)
(* `todos`, the localStorage entry 'colorfulTodo', the view filter and the *)
(* children of the list element #todo-list, with one action per event      *)
(* handler or exported function; and of the RedTodo application            *)
(* (src/agents/generated_project/app.js): its array `todos`, the           *)
(* localStorage entry 'redtodo' and the children of its list element.      *)
(* A browser page runs one of the two scripts; `page` says which.  A third  *)
(* kind of page runs the React component of the project generator          *)
(* (src/ai-front/src/App.js): its form fields, its `loading` state, the     *)
(* disabled attribute of its button and the downloadZip call in progress.  *)
(*                                                                         *)
(* Strings are sequences of one-character strings, so that trim() is       *)
(* computed.  A task id is a natural number: 1, 2, ..., MaxUUID for the    *)
(* values generateUUID returns, 0 and MaxUUID + 1 for tasks found in       *)
(* storage at startup.                                                     *)
(***************************************************************************)
EXTENDS Integers, Sequences, FiniteSets, TLC

VARIABLES
    page,           \* the script the page runs: "script.js", "app.js" or "App.js"
    todos,          \* script.js:53   let todos = []
    currentFilter,  \* script.js:55   let currentFilter = 'all'
    storage,        \* localStorage value under the key 'colorfulTodo'
    listEl,         \* script.js:63   children of #todo-list, in document order
    appTodos,       \* app.js:22     let todos = []
    appStorage,     \* localStorage value under the key 'redtodo'
    todoList,       \* app.js:12     children of #todo-list, in document order
    booted,         \* FALSE until the top-level statements of the script have run
    uuids,          \* how many ids generateUUID / crypto.randomUUID has returned
    writeFailures,  \* how many localStorage.setItem calls have thrown
    lastEvent,      \* history: the handler that ran last and what it was given
    ledger,         \* history: id -> the field values the operations asked for
    form,           \* App.js:5-8   prompt, description, colorScheme, stack
    loading,        \* App.js:9     const [loading, setLoading] = useState(false)
    disabled,       \* App.js:101   the disabled attribute of the button, as rendered
    call,           \* the downloadZip call in progress: where it waits, and its body
    started,        \* history: how many downloadZip calls have started
    finished        \* history: how many have run their finally block

\* The state of the component of App.js.
frontVars == <<form, loading, disabled, call, started, finished>>

vars == <<page, todos, currentFilter, storage, listEl, appTodos, appStorage,
          todoList, booted, uuids, writeFailures, lastEvent, ledger, frontVars>>

\* What app.js reads and writes, and what script.js does.
appVars == <<appTodos, appStorage, todoList>>
scriptVars == <<todos, currentFilter, storage, listEl, ledger>>

----------------------------------------------------------------------------
(* Bounds of the model *)

MaxUUID == 1
MaxWriteFailures == 1
MaxRequests == 2

----------------------------------------------------------------------------
(* Strings *)

EmptyString == << >>

IsWhiteSpace(c) == c = " "

RECURSIVE trimStart(_)
trimStart(s) ==
    IF s # << >> /\ IsWhiteSpace(Head(s)) THEN trimStart(Tail(s)) ELSE s

RECURSIVE trimEnd(_)
trimEnd(s) ==
    IF s # << >> /\ IsWhiteSpace(s[Len(s)])
    THEN trimEnd(SubSeq(s, 1, Len(s) - 1))
    ELSE s

\* String.prototype.trim
trim(s) == trimEnd(trimStart(s))

\* What the user types, or a caller passes, as a title and as a description.
RawTitles == { << >>, <<" ">>, <<"a">>, <<" ", "b", " ">> }
RawDescriptions == { <<" ", "d">> }

Filters == {"all", "active", "completed"}

----------------------------------------------------------------------------
(* Data model *)

Has(obj, key) == key \in DOMAIN obj

\* new Todo({id, title, description = '', completed = false,
\*           createdAt = Date.now()}); t is what Date.now() returns.
Todo(param, t) ==
    [id          |-> param.id,
     title       |-> param.title,
     description |-> IF Has(param, "description") THEN param.description
                     ELSE EmptyString,
     completed   |-> IF Has(param, "completed") THEN param.completed ELSE FALSE,
     createdAt   |-> IF Has(param, "createdAt") THEN param.createdAt ELSE t]

\* fromObject without its `completed` line: the constructor's default applies.
fromObjectDropsCompleted(obj, t) ==
    Todo([id          |-> obj.id,
          title       |-> obj.title,
          description |-> IF Has(obj, "description") THEN obj.description
                          ELSE EmptyString,
          createdAt   |-> IF Has(obj, "createdAt") THEN obj.createdAt ELSE t],
         t)

\* Todo.fromObject(obj): obj is a parsed JSON object, a function whose domain
\* is the set of properties it has.
fromObject(obj, t) ==
    Todo([id          |-> obj.id,
          title       |-> obj.title,
          description |-> IF Has(obj, "description") THEN obj.description
                          ELSE EmptyString,
          completed   |-> IF Has(obj, "completed") THEN obj.completed ELSE FALSE,
          createdAt   |-> IF Has(obj, "createdAt") THEN obj.createdAt ELSE t],
         t)

----------------------------------------------------------------------------
(* Persistence *)

\* The value of localStorage.getItem('colorfulTodo'), by what JSON.parse
\* makes of it: no entry (null), a text JSON.parse throws on, a text that
\* parses to something that is no array, or the text of an array of objects.
NoEntry == [kind |-> "missing", items |-> << >>]
Unparsable == [kind |-> "unparsable", items |-> << >>]
NonArray == [kind |-> "nonarray", items |-> << >>]
ArrayText(objs) == [kind |-> "array", items |-> objs]

\* JSON.stringify of one Todo: its own enumerable properties.
stringifyTodo(todo) ==
    [id          |-> todo.id,
     title       |-> todo.title,
     description |-> todo.description,
     completed   |-> todo.completed,
     createdAt   |-> todo.createdAt]

\* JSON.stringify(todos)
stringify(ts) == ArrayText([i \in 1..Len(ts) |-> stringifyTodo(ts[i])])

\* What the storage may hold when the page is opened: nothing, a damaged
\* entry, or what an earlier session wrote (the second array an entry of a
\* writer that stored only id and title).
InitialStorage ==
    { NoEntry, Unparsable, NonArray,
      ArrayText(<< [id |-> 0, title |-> <<"a">>, description |-> <<"d">>,
                    completed |-> TRUE, createdAt |-> 0] >>),
      ArrayText(<< [id |-> 0, title |-> <<"a">>] >>) }

----------------------------------------------------------------------------
(* The functions of script.js, on the state m they read and write:         *)
(* m.todos, m.currentFilter, m.storage, m.listEl and the count of failed    *)
(* writes.                                                                 *)

Machine ==
    [todos |-> todos, currentFilter |-> currentFilter, storage |-> storage,
     listEl |-> listEl, writeFailures |-> writeFailures]

\* saveTodos with removeItem in its catch block: a failed write clears the
\* entry.
saveTodosClearsOnFailure(m, ok) ==
    IF ok
    THEN [m EXCEPT !.storage = stringify(m.todos)]
    ELSE [m EXCEPT !.writeFailures = @ + 1, !.storage = NoEntry]

\* saveTodos(): setItem either stores the text or throws (ok = FALSE),
\* and the catch block only logs.
saveTodos(m, ok) ==
    IF ok
    THEN [m EXCEPT !.storage = stringify(m.todos)]
    ELSE [m EXCEPT !.writeFailures = @ + 1]

\* createTodoElement(todo): the <li> with its data-id, its title text and its
\* classes (the description paragraph is not part of the model).
createTodoElement(todo) ==
    [id          |-> todo.id,
     title       |-> todo.title,
     completed   |-> todo.completed,
     removing    |-> FALSE,
     editing     |-> FALSE]

\* The callback with the tests of its two branches exchanged.
filterCallbackSwapped(todo, filter) ==
    IF filter = "active" THEN todo.completed
    ELSE IF filter = "completed" THEN ~todo.completed
    ELSE TRUE

\* The callback renderTodos passes to todos.filter.
filterCallback(todo, filter) ==
    IF filter = "active" THEN ~todo.completed
    ELSE IF filter = "completed" THEN todo.completed
    ELSE TRUE

\* renderTodos with the filtered array assigned to todos itself.
renderTodosAssignsFiltered(m) ==
    LET filtered == SelectSeq(m.todos, LAMBDA todo : filterCallback(todo, m.currentFilter))
    IN  [m EXCEPT !.todos = filtered,
                  !.listEl = [i \in 1..Len(filtered) |-> createTodoElement(filtered[i])]]

\* renderTodos(): listEl.innerHTML = '' and one new element per filtered todo.
renderTodos(m) ==
    LET filtered == SelectSeq(m.todos, LAMBDA todo : filterCallback(todo, m.currentFilter))
    IN  [m EXCEPT !.listEl = [i \in 1..Len(filtered) |-> createTodoElement(filtered[i])]]

\* loadTodos adding the parsed tasks to the collection (todos.concat) instead
\* of assigning them to it.
loadTodosConcat(m, t) ==
    LET raw == m.storage
        loaded == IF raw.kind = "missing" THEN m.todos
                  ELSE IF raw.kind = "array"
                       THEN m.todos \o [i \in 1..Len(raw.items) |-> fromObject(raw.items[i], t)]
                       ELSE << >>
    IN  renderTodos([m EXCEPT !.todos = loaded])

\* loadTodos(): a missing entry leaves todos as it is; a text that does not
\* parse, or parses to something without map(), ends in the catch block.
loadTodos(m, t) ==
    LET raw == m.storage
        loaded == IF raw.kind = "missing" THEN m.todos
                  ELSE IF raw.kind = "array"
                       THEN [i \in 1..Len(raw.items) |-> fromObject(raw.items[i], t)]
                       ELSE << >>
    IN  renderTodos([m EXCEPT !.todos = loaded])

\* todos.findIndex(t => t.id === id), 1-based; 0 when there is none.
findIndex(ts, id) ==
    IF \E i \in 1..Len(ts) : ts[i].id = id
    THEN CHOOSE i \in 1..Len(ts) :
            /\ ts[i].id = id
            /\ \A j \in 1..(i - 1) : ts[j].id # id
    ELSE 0

\* listEl.querySelector(`li[data-id="${id}"]`): the first match, 0 for null.
querySelector(list, id) ==
    IF \E i \in 1..Len(list) : list[i].id = id
    THEN CHOOSE i \in 1..Len(list) :
            /\ list[i].id = id
            /\ \A j \in 1..(i - 1) : list[j].id # id
    ELSE 0

\* addTodo with todos.unshift(newTodo) in the place of todos.push(newTodo).
addTodoUnshift(m, title, description, uuid, t, ok) ==
    LET newTodo == Todo([id |-> uuid, title |-> trim(title),
                         description |-> trim(description)], t)
        saved == saveTodos([m EXCEPT !.todos = <<newTodo>> \o @], ok)
    IN  [saved EXCEPT !.listEl = Append(@, createTodoElement(newTodo))]

\* addTodo with saveTodos() called before todos.push(newTodo).
addTodoSavesFirst(m, title, description, uuid, t, ok) ==
    LET newTodo == Todo([id |-> uuid, title |-> trim(title),
                         description |-> trim(description)], t)
        saved == saveTodos(m, ok)
    IN  [saved EXCEPT !.todos = Append(@, newTodo),
                      !.listEl = Append(@, createTodoElement(newTodo))]

\* addTodo(title, description): uuid is what generateUUID returns, t Date.now().
addTodo(m, title, description, uuid, t, ok) ==
    LET newTodo == Todo([id |-> uuid, title |-> trim(title),
                         description |-> trim(description)], t)
        saved == saveTodos([m EXCEPT !.todos = Append(@, newTodo)], ok)
    IN  [saved EXCEPT !.listEl = Append(@, createTodoElement(newTodo))]

\* The assignments of updateTodo with the description stored as given.
mergeUpdatesUntrimmed(todo, updates) ==
    [todo EXCEPT
        !.title = IF Has(updates, "title") THEN trim(updates.title) ELSE @,
        !.description = IF Has(updates, "description")
                        THEN updates.description ELSE @,
        !.completed = IF Has(updates, "completed") THEN updates.completed ELSE @]

\* The assignments of updateTodo without the typeof test of the description:
\* a description that is not given is stored as the empty string.
mergeUpdatesClearsAbsent(todo, updates) ==
    [todo EXCEPT
        !.title = IF Has(updates, "title") THEN trim(updates.title) ELSE @,
        !.description = IF Has(updates, "description")
                        THEN trim(updates.description) ELSE EmptyString,
        !.completed = IF Has(updates, "completed") THEN updates.completed ELSE @]

\* The three assignments of updateTodo, each under its typeof test.
mergeUpdates(todo, updates) ==
    [todo EXCEPT
        !.title = IF Has(updates, "title") THEN trim(updates.title) ELSE @,
        !.description = IF Has(updates, "description")
                        THEN trim(updates.description) ELSE @,
        !.completed = IF Has(updates, "completed") THEN updates.completed ELSE @]

\* updateTodo creating the task when the id is not found.
updateTodoUpserts(m, id, updates, ok) ==
    LET index == findIndex(m.todos, id)
        fresh == [id |-> id, title |-> EmptyString, description |-> EmptyString,
                  completed |-> FALSE, createdAt |-> 0]
    IN  renderTodos(saveTodos(
            IF index = 0
            THEN [m EXCEPT !.todos = Append(@, mergeUpdates(fresh, updates))]
            ELSE [m EXCEPT !.todos[index] = mergeUpdates(@, updates)], ok))

\* updateTodo without its early return: an id that is not found changes no
\* task, and saveTodos() and renderTodos() run all the same.
updateTodoNoEarlyReturn(m, id, updates, ok) ==
    LET index == findIndex(m.todos, id)
    IN  renderTodos(saveTodos(
            IF index = 0 THEN m
            ELSE [m EXCEPT !.todos[index] = mergeUpdates(@, updates)], ok))

\* updateTodo(id, updates)
updateTodo(m, id, updates, ok) ==
    LET index == findIndex(m.todos, id)
    IN  IF index = 0 THEN m
        ELSE renderTodos(saveTodos(
                [m EXCEPT !.todos[index] = mergeUpdates(@, updates)], ok))

\* todos.filter(t => t.id !== id)
withoutId(ts, id) == SelectSeq(ts, LAMBDA todo : todo.id # id)

\* deleteTodo returning after it has started the animation of a displayed
\* item, before the state update.
deleteTodoSkipsState(m, id, ok) ==
    LET li == querySelector(m.listEl, id)
    IN  IF li = 0
        THEN saveTodos([m EXCEPT !.todos = withoutId(@, id)], ok)
        ELSE [m EXCEPT !.listEl[li].removing = TRUE]

\* deleteTodo(id): a displayed item only gets the class 'removing'; it leaves
\* the list when its animationend event is handled.
deleteTodo(m, id, ok) ==
    LET li == querySelector(m.listEl, id)
    IN  IF li = 0
        THEN saveTodos([m EXCEPT !.todos = withoutId(@, id)], ok)
        ELSE saveTodos([m EXCEPT !.listEl[li].removing = TRUE,
                                 !.todos = withoutId(@, id)], ok)

\* toggleComplete with the exception of a failed write leaving the function:
\* renderTodos() is not reached.
toggleCompleteAborts(m, id, ok) ==
    LET index == findIndex(m.todos, id)
        saved == saveTodos([m EXCEPT !.todos[index].completed = ~@], ok)
    IN  IF index = 0 THEN m
        ELSE IF ok THEN renderTodos(saved) ELSE saved

\* toggleComplete(id)
toggleComplete(m, id, ok) ==
    LET index == findIndex(m.todos, id)
    IN  IF index = 0 THEN m
        ELSE renderTodos(saveTodos(
                [m EXCEPT !.todos[index].completed = ~@], ok))

\* enterEditMode(li, todo), li the i-th child of the list.
enterEditMode(m, i) ==
    IF m.listEl[i].editing THEN m
    ELSE [m EXCEPT !.listEl[i].editing = TRUE]

\* exitEditMode(li): the class 'editing' is taken from li, and renderTodos
\* then replaces every child of the list, li included, by a new element.
exitEditMode(m) == renderTodos(m)

\* The commit closure without its else branch: an emptied title is stored.
commitWithoutDelete(m, i, titleValue, descValue, ok) ==
    exitEditMode(updateTodo(m, m.listEl[i].id,
                            [title |-> trim(titleValue),
                             description |-> trim(descValue)], ok))

\* The commit closure of enterEditMode, for the i-th child of the list and
\* the values of its two edit fields.
commit(m, i, titleValue, descValue, ok) ==
    LET id == m.listEl[i].id
        newTitle == trim(titleValue)
        newDesc == trim(descValue)
    IN  exitEditMode(
            IF newTitle # EmptyString
            THEN updateTodo(m, id, [title |-> newTitle, description |-> newDesc], ok)
            ELSE deleteTodo(m, id, ok))

\* The cancel closure calling saveTodos() before it leaves edit mode.
cancelSaves(m) == exitEditMode(saveTodos(m, TRUE))

\* The cancel closure of enterEditMode.
cancel(m) == exitEditMode(m)

----------------------------------------------------------------------------
(* The functions of app.js, on the state m they read and write: m.todos,    *)
(* m.storage, m.todoList and the count of failed writes.  The name of a     *)
(* function that script.js has too carries the prefix app_.                *)

AppMachine ==
    [todos |-> appTodos, storage |-> appStorage, todoList |-> todoList,
     writeFailures |-> writeFailures]

\* What the storage may hold under 'redtodo' when the page is opened.
AppInitialStorage ==
    { NoEntry, Unparsable, NonArray,
      ArrayText(<< [id |-> 0, text |-> <<"a">>, completed |-> TRUE] >>),
      ArrayText(<< [id |-> 0, text |-> <<"a">>, completed |-> TRUE],
                   [id |-> MaxUUID + 1, text |-> <<"b">>, completed |-> FALSE] >>) }

\* loadTodos() of app.js: the parsed array as it is, or [] when there is no
\* entry, when JSON.parse throws or when the value is no array.
app_loadTodos(m) ==
    LET stored == m.storage
    IN  [m EXCEPT !.todos = IF stored.kind = "array" THEN stored.items ELSE << >>]

\* saveTodos() of app.js: JSON.stringify of an array of plain objects.
app_saveTodos(m, ok) ==
    IF ok
    THEN [m EXCEPT !.storage = ArrayText(m.todos)]
    ELSE [m EXCEPT !.writeFailures = @ + 1]

\* renderTodos() of app.js: innerHTML = '' and one <li> per todo.
app_renderTodos(m) ==
    [m EXCEPT !.todoList =
        [i \in 1..Len(m.todos) |->
            [id |-> m.todos[i].id, text |-> m.todos[i].text,
             completed |-> m.todos[i].completed]]]

\* addTodo(text) of app.js; uuid is what crypto.randomUUID returns.
app_addTodo(m, text, uuid, ok) ==
    LET newTodo == [id |-> uuid, text |-> text, completed |-> FALSE]
    IN  app_renderTodos(app_saveTodos([m EXCEPT !.todos = Append(@, newTodo)], ok))

\* editTodo(id, newText)
editTodo(m, id, newText, ok) ==
    LET index == findIndex(m.todos, id)
    IN  IF index = 0 THEN m
        ELSE app_renderTodos(app_saveTodos([m EXCEPT !.todos[index].text = newText], ok))

\* deleteTodo of app.js written with todos.splice(todos.findIndex(...), 1):
\* the index -1 of an id that is not there takes the last todo out.
app_deleteTodoSplice(m, id, ok) ==
    LET index == findIndex(m.todos, id)
        at == IF index = 0 THEN Len(m.todos) ELSE index
    IN  app_renderTodos(app_saveTodos(
            [m EXCEPT !.todos = SubSeq(@, 1, at - 1) \o SubSeq(@, at + 1, Len(@))], ok))

\* deleteTodo(id) of app.js
app_deleteTodo(m, id, ok) ==
    app_renderTodos(app_saveTodos([m EXCEPT !.todos = withoutId(@, id)], ok))

\* toggleComplete(id) of app.js
app_toggleComplete(m, id, ok) ==
    LET index == findIndex(m.todos, id)
    IN  IF index = 0 THEN m
        ELSE app_renderTodos(app_saveTodos(
                [m EXCEPT !.todos[index].completed = ~@], ok))

\* clearCompleted with the test of its filter inverted: the completed todos
\* are the ones kept.
clearCompletedInverted(m, ok) ==
    app_renderTodos(app_saveTodos(
        [m EXCEPT !.todos = SelectSeq(@, LAMBDA todo : todo.completed)], ok))

\* clearCompleted()
clearCompleted(m, ok) ==
    app_renderTodos(app_saveTodos(
        [m EXCEPT !.todos = SelectSeq(@, LAMBDA todo : ~todo.completed)], ok))

----------------------------------------------------------------------------
(* The component of App.js, on the state s of one render cycle: s.loading,  *)
(* s.call and the count of finished calls.                                 *)

\* What the user may have typed into one of the four text fields.
FieldValues == { EmptyString, <<"x">> }

\* No downloadZip call is in progress.
Idle == [pc |-> "idle", body |-> << >>]

\* useState("") four times, useState(false), and the button as first rendered.
FrontInitial ==
    /\ form = [prompt |-> EmptyString, description |-> EmptyString,
               colorScheme |-> EmptyString, stack |-> EmptyString]
    /\ loading = FALSE
    /\ disabled = FALSE
    /\ call = Idle
    /\ started = 0
    /\ finished = 0

FrontState == [loading |-> loading, call |-> call, finished |-> finished]

\* The object of which user_prompt is the JSON text.
user_prompt(f) ==
    [prompt |-> f.prompt, description |-> f.description,
     color_scheme |-> f.colorScheme, stack |-> f.stack]

\* downloadZip() up to its first await: setLoading(true) and the fetch call.
downloadZip(s, f) ==
    [s EXCEPT !.loading = TRUE,
              !.call = [pc |-> "fetch", body |-> user_prompt(f)]]

\* The finally block: setLoading(false); the call is over.
finallyBlock(s) ==
    [s EXCEPT !.loading = FALSE, !.call = Idle, !.finished = @ + 1]

\* What follows the fetch promise: a response with ok true is read as a
\* blob, another one as text; a rejection enters the catch block, whose
\* alert() waits for the user.
afterFetch(s, res) ==
    [s EXCEPT !.call.pc = CASE res = "ok" -> "blob"
                            [] res = "notOk" -> "text"
                            [] OTHER -> "alert"]

\* What follows res.text(), resolved or rejected: an Error is thrown, or the
\* rejection, and the catch block entered.
afterText(s) == [s EXCEPT !.call.pc = "alert"]

\* What follows res.blob(): the download and the finally block, or the
\* catch block.
afterBlob(s, resolved) ==
    IF resolved THEN finallyBlock(s) ELSE [s EXCEPT !.call.pc = "alert"]

\* The call ending after alert() without a finally block, setLoading(false)
\* being the last statement of the try block.
afterAlertNoFinally(s) == [s EXCEPT !.call = Idle, !.finished = @ + 1]

\* What follows alert(): the finally block.
afterAlert(s) == finallyBlock(s)

----------------------------------------------------------------------------
(* History: what the operations were asked to do, task by task *)

Entry(todo) ==
    [title |-> todo.title, description |-> todo.description,
     completed |-> todo.completed]

Baseline(ts) ==
    [id \in {ts[i].id : i \in 1..Len(ts)} |->
        Entry(ts[CHOOSE i \in 1..Len(ts) : ts[i].id = id])]

Created(l, id, title, description) ==
    [x \in DOMAIN l \cup {id} |->
        IF x = id
        THEN [title |-> trim(title), description |-> trim(description),
              completed |-> FALSE]
        ELSE l[x]]

Updated(l, id, updates) ==
    [x \in DOMAIN l |->
        IF x = id
        THEN [title |-> IF Has(updates, "title") THEN trim(updates.title)
                        ELSE l[x].title,
              description |-> IF Has(updates, "description")
                              THEN trim(updates.description)
                              ELSE l[x].description,
              completed |-> IF Has(updates, "completed") THEN updates.completed
                            ELSE l[x].completed]
        ELSE l[x]]

Deleted(l, id) == [x \in DOMAIN l \ {id} |-> l[x]]

Toggled(l, id) ==
    [x \in DOMAIN l |->
        IF x = id THEN [l[x] EXCEPT !.completed = ~@] ELSE l[x]]

Event(op, id, blank) == [op |-> op, id |-> id, blank |-> blank]

----------------------------------------------------------------------------
(* Initial state and actions *)

\* The state when the script of the page starts: script.js:53, 55 and
\* app.js:22, with empty lists.  The storage entry of the script that does
\* not run is never read.
Init ==
    /\ page \in {"script.js", "app.js"}
    /\ todos = << >>
    /\ currentFilter = "all"
    /\ storage \in (IF page = "script.js" THEN InitialStorage ELSE {NoEntry})
    /\ listEl = << >>
    /\ appTodos = << >>
    /\ appStorage \in (IF page = "app.js" THEN AppInitialStorage ELSE {NoEntry})
    /\ todoList = << >>
    /\ booted = FALSE
    /\ uuids = 0
    /\ writeFailures = 0
    /\ lastEvent = [op |-> "none", id |-> -1, blank |-> FALSE]
    /\ ledger = << >>
    /\ FrontInitial

\* The results of Date.now() during the session.  A createdAt value is only
\* stored and copied, never compared, so one value, other than the time 0 of
\* the entry found in storage at startup, stands for the session's readings.
Clock == {1}

\* Whether a setItem call may throw (the quota is exceeded).
WriteOutcomes == IF writeFailures < MaxWriteFailures THEN BOOLEAN ELSE {TRUE}

\* The ids a caller of the exported functions may pass: those a task can
\* have, and one that no task has.
Ids == 0..(MaxUUID + 1)

\* The `updates` objects a caller of updateTodo may pass.
UpdateInputs ==
    { [title |-> r] : r \in RawTitles }
    \cup { [description |-> <<" ", "d">>], [completed |-> TRUE],
           [title |-> <<"a">>, description |-> <<"d", " ">>] }

Apply(m, event, newLedger) ==
    /\ page = "script.js"
    /\ todos' = m.todos
    /\ currentFilter' = m.currentFilter
    /\ storage' = m.storage
    /\ listEl' = m.listEl
    /\ writeFailures' = m.writeFailures
    /\ lastEvent' = event
    /\ ledger' = newLedger
    /\ UNCHANGED <<page, appVars, frontVars>>

\* script.js:379-381: the handlers are attached and loadTodos() runs.
Startup ==
    /\ ~booted
    /\ booted' = TRUE
    /\ \E t \in Clock :
        LET m == loadTodos(Machine, t)
        IN  Apply(m, Event("startup", -1, FALSE), Baseline(m.todos))
    /\ UNCHANGED uuids

\* The submit handler of the form, for the values of its two fields.
FormSubmit(titleValue, descValue) ==
    /\ booted
    /\ LET title == trim(titleValue)
           desc == trim(descValue)
       IN  IF title = EmptyString
           THEN /\ Apply(Machine, Event("submit", -1, TRUE), ledger)
                /\ UNCHANGED uuids
           ELSE /\ uuids < MaxUUID
                /\ \E t \in Clock, ok \in WriteOutcomes :
                    LET id == uuids + 1
                        m == addTodo(Machine, title, desc, id, t, ok)
                    IN  Apply(m, Event("submit", id, FALSE),
                              Created(ledger, id, title, desc))
                            /\ uuids' = uuids + 1
    /\ UNCHANGED booted

\* window.ColorfulTodo.addTodo(title, description)
ApiAddTodo(title, description) ==
    /\ booted
    /\ uuids < MaxUUID
    /\ \E t \in Clock, ok \in WriteOutcomes :
        LET id == uuids + 1
            m == addTodo(Machine, title, description, id, t, ok)
        IN  Apply(m, Event("addTodo", id, trim(title) = EmptyString),
                  Created(ledger, id, title, description))
    /\ uuids' = uuids + 1
    /\ UNCHANGED booted

\* window.ColorfulTodo.updateTodo(id, updates)
ApiUpdateTodo(id, updates) ==
    /\ booted
    /\ \E ok \in WriteOutcomes :
        LET m == updateTodo(Machine, id, updates, ok)
            blank == Has(updates, "title") /\ trim(updates.title) = EmptyString
        IN  Apply(m, Event("updateTodo", id, blank), Updated(ledger, id, updates))
    /\ UNCHANGED <<booted, uuids>>

\* window.ColorfulTodo.deleteTodo(id)
ApiDeleteTodo(id) ==
    /\ booted
    /\ \E ok \in WriteOutcomes :
        LET m == deleteTodo(Machine, id, ok)
        IN  Apply(m, Event("deleteTodo", id, FALSE), Deleted(ledger, id))
    /\ UNCHANGED <<booted, uuids>>

\* window.ColorfulTodo.toggleComplete(id)
ApiToggleComplete(id) ==
    /\ booted
    /\ \E ok \in WriteOutcomes :
        LET m == toggleComplete(Machine, id, ok)
        IN  Apply(m, Event("toggleComplete", id, FALSE), Toggled(ledger, id))
    /\ UNCHANGED <<booted, uuids>>

\* window.ColorfulTodo.loadTodos()
ApiLoadTodos ==
    /\ booted
    /\ \E t \in Clock :
        LET m == loadTodos(Machine, t)
        IN  Apply(m, Event("loadTodos", -1, FALSE), Baseline(m.todos))
    /\ UNCHANGED <<booted, uuids>>

\* window.ColorfulTodo.saveTodos()
ApiSaveTodos ==
    /\ booted
    /\ \E ok \in WriteOutcomes :
        LET m == saveTodos(Machine, ok)
        IN  Apply(m, Event("saveTodos", -1, FALSE), ledger)
    /\ UNCHANGED <<booted, uuids>>

\* script.js:196: the change listener of the checkbox of the i-th child.
CheckboxChange(i) ==
    /\ booted
    /\ i \in 1..Len(listEl)
    /\ \E ok \in WriteOutcomes :
        LET id == listEl[i].id
            m == toggleComplete(Machine, id, ok)
        IN  Apply(m, Event("checkbox", id, FALSE), Toggled(ledger, id))
    /\ UNCHANGED <<booted, uuids>>

\* script.js:203: the click listener of the delete button of the i-th child.
DeleteClick(i) ==
    /\ booted
    /\ i \in 1..Len(listEl)
    /\ \E ok \in WriteOutcomes :
        LET id == listEl[i].id
            m == deleteTodo(Machine, id, ok)
        IN  Apply(m, Event("delete", id, FALSE), Deleted(ledger, id))
    /\ UNCHANGED <<booted, uuids>>

\* script.js:209: the click listener of the edit button of the i-th child.
EditClick(i) ==
    /\ booted
    /\ i \in 1..Len(listEl)
    /\ LET m == enterEditMode(Machine, i)
       IN  Apply(m, Event("edit", listEl[i].id, FALSE), ledger)
    /\ UNCHANGED <<booted, uuids>>

\* script.js:307, 311-322: Save is clicked, or Enter pressed in an edit field,
\* of the i-th child, which is in edit mode, with the field values given.
Commit(i, titleValue, descValue) ==
    /\ booted
    /\ i \in 1..Len(listEl)
    /\ listEl[i].editing
    /\ \E ok \in WriteOutcomes :
        LET id == listEl[i].id
            blank == trim(titleValue) = EmptyString
            m == commit(Machine, i, titleValue, descValue, ok)
        IN  Apply(m, Event("commit", id, blank),
                  IF blank THEN Deleted(ledger, id)
                  ELSE Updated(ledger, id,
                               [title |-> titleValue, description |-> descValue]))
    /\ UNCHANGED <<booted, uuids>>

\* script.js:308: Cancel is clicked in the i-th child, which is in edit mode.
Cancel(i) ==
    /\ booted
    /\ i \in 1..Len(listEl)
    /\ listEl[i].editing
    /\ LET m == cancel(Machine)
       IN  Apply(m, Event("cancel", listEl[i].id, FALSE), ledger)
    /\ UNCHANGED <<booted, uuids>>

\* script.js:150-152: animationend on the i-th child, which deleteTodo marked.
AnimationEnd(i) ==
    /\ booted
    /\ i \in 1..Len(listEl)
    /\ listEl[i].removing
    /\ LET m == [Machine EXCEPT !.listEl =
                    SubSeq(listEl, 1, i - 1) \o SubSeq(listEl, i + 1, Len(listEl))]
       IN  Apply(m, Event("animationend", listEl[i].id, FALSE), ledger)
    /\ UNCHANGED <<booted, uuids>>

\* script.js:337-340: the click listener of a filter button.
FilterClick(key) ==
    /\ booted
    /\ LET m == renderTodos([Machine EXCEPT !.currentFilter = key])
       IN  Apply(m, Event("filter", -1, FALSE), ledger)
    /\ UNCHANGED <<booted, uuids>>

----------------------------------------------------------------------------
(* The actions of app.js *)

AppApply(m, event) ==
    /\ page = "app.js"
    /\ appTodos' = m.todos
    /\ appStorage' = m.storage
    /\ todoList' = m.todoList
    /\ writeFailures' = m.writeFailures
    /\ lastEvent' = event
    /\ UNCHANGED <<page, scriptVars, frontVars>>

\* What prompt() returns: null when it is dismissed, else the text entered.
PromptResults ==
    {[dismissed |-> TRUE, value |-> EmptyString]}
    \cup {[dismissed |-> FALSE, value |-> r] : r \in RawTitles}

\* app.js:207-209: loadTodos(), renderTodos(), attachEventListeners().
AppStartup ==
    /\ ~booted
    /\ booted' = TRUE
    /\ AppApply(app_renderTodos(app_loadTodos(AppMachine)),
                Event("app.startup", -1, FALSE))
    /\ UNCHANGED uuids

\* app.js:167-174: the submit listener, for the value of the input field.
AppSubmit(value) ==
    /\ booted
    /\ LET text == trim(value)
       IN  IF text = EmptyString
           THEN /\ AppApply(AppMachine, Event("app.submit", -1, TRUE))
                /\ UNCHANGED uuids
           ELSE /\ uuids < MaxUUID
                /\ \E ok \in WriteOutcomes :
                    AppApply(app_addTodo(AppMachine, text, uuids + 1, ok),
                             Event("app.submit", uuids + 1, FALSE))
                /\ uuids' = uuids + 1
    /\ UNCHANGED booted

\* app.js:182-183: a click on the checkbox of the i-th child.
AppToggleClick(i) ==
    /\ booted
    /\ i \in 1..Len(todoList)
    /\ \E ok \in WriteOutcomes :
        AppApply(app_toggleComplete(AppMachine, todoList[i].id, ok),
                 Event("app.toggle", todoList[i].id, FALSE))
    /\ UNCHANGED <<booted, uuids>>

\* app.js:184-191: a click on the edit button of the i-th child, and what
\* prompt() then returns.
AppEditClick(i, answer) ==
    /\ booted
    /\ i \in 1..Len(todoList)
    /\ LET id == todoList[i].id
           trimmed == trim(answer.value)
           ignored == answer.dismissed \/ trimmed = EmptyString
       IN  \E ok \in WriteOutcomes :
            AppApply(IF findIndex(appTodos, id) = 0 \/ ignored THEN AppMachine
                     ELSE editTodo(AppMachine, id, trimmed, ok),
                     Event("app.edit", id, ignored))
    /\ UNCHANGED <<booted, uuids>>

\* app.js:192-195: a click on the delete button of the i-th child.
AppDeleteClick(i) ==
    /\ booted
    /\ i \in 1..Len(todoList)
    /\ \E ok \in WriteOutcomes :
        AppApply(app_deleteTodo(AppMachine, todoList[i].id, ok),
                 Event("app.delete", todoList[i].id, FALSE))
    /\ UNCHANGED <<booted, uuids>>

\* app.js:199-201: a click on the button #clear-completed.
AppClearClick ==
    /\ booted
    /\ \E ok \in WriteOutcomes :
        AppApply(clearCompleted(AppMachine, ok), Event("app.clear", -1, FALSE))
    /\ UNCHANGED <<booted, uuids>>

\* deleteTodo(id) and loadTodos() are function declarations of a classic
\* script, hence properties of window that any caller may invoke.
AppCallDeleteTodo(id) ==
    /\ booted
    /\ \E ok \in WriteOutcomes :
        AppApply(app_deleteTodo(AppMachine, id, ok),
                 Event("app.deleteTodo", id, FALSE))
    /\ UNCHANGED <<booted, uuids>>

AppCallLoadTodos ==
    /\ booted
    /\ AppApply(app_loadTodos(AppMachine), Event("app.loadTodos", -1, FALSE))
    /\ UNCHANGED <<booted, uuids>>

----------------------------------------------------------------------------
(* The actions of App.js *)

FrontApply(s) ==
    /\ page = "App.js"
    /\ loading' = s.loading
    /\ call' = s.call
    /\ finished' = s.finished
    /\ UNCHANGED <<page, scriptVars, appVars, booted, uuids, writeFailures, lastEvent>>

\* App.js:66, 76, 86, 96: onChange of one of the four inputs.
SetField(name, value) ==
    /\ form' = [form EXCEPT ![name] = value]
    /\ form' # form
    /\ FrontApply(FrontState)
    /\ UNCHANGED <<disabled, started>>

\* App.js:101: a click on the button, which does nothing while the button
\* is disabled.  React renders again when the handler has returned, at its
\* first await, with the new value of loading.
GenerateClick ==
    /\ ~disabled
    /\ started < MaxRequests
    /\ LET s == downloadZip(FrontState, form)
       IN  FrontApply(s) /\ disabled' = s.loading
    /\ started' = started + 1
    /\ UNCHANGED form

\* The promise of fetch settles.
FetchSettles(res) ==
    /\ call.pc = "fetch"
    /\ FrontApply(afterFetch(FrontState, res))
    /\ UNCHANGED <<form, disabled, started>>

\* The promise of res.text() settles.
TextSettles ==
    /\ call.pc = "text"
    /\ FrontApply(afterText(FrontState))
    /\ UNCHANGED <<form, disabled, started>>

\* The promise of res.blob() settles.
BlobSettles(resolved) ==
    /\ call.pc = "blob"
    /\ FrontApply(afterBlob(FrontState, resolved))
    /\ UNCHANGED <<form, disabled, started>>

\* The user closes the alert box.
AlertDismissed ==
    /\ call.pc = "alert"
    /\ FrontApply(afterAlert(FrontState))
    /\ UNCHANGED <<form, disabled, started>>

\* React renders the component after a state update made outside an event
\* handler: the button gets disabled={loading}.
Render ==
    /\ disabled # loading
    /\ disabled' = loading
    /\ FrontApply(FrontState)
    /\ UNCHANGED <<form, started>>

InitFront ==
    /\ page = "App.js"
    /\ todos = << >>
    /\ currentFilter = "all"
    /\ storage = NoEntry
    /\ listEl = << >>
    /\ appTodos = << >>
    /\ appStorage = NoEntry
    /\ todoList = << >>
    /\ booted = FALSE
    /\ uuids = 0
    /\ writeFailures = 0
    /\ lastEvent = [op |-> "none", id |-> -1, blank |-> FALSE]
    /\ ledger = << >>
    /\ FrontInitial

NextFront ==
    \/ \E name \in DOMAIN form, value \in FieldValues : SetField(name, value)
    \/ GenerateClick
    \/ \E res \in {"ok", "notOk", "rejected"} : FetchSettles(res)
    \/ TextSettles
    \/ \E resolved \in BOOLEAN : BlobSettles(resolved)
    \/ AlertDismissed
    \/ Render

\* Every promise settles, the user closes every alert box, and React
\* renders after every state update.
FairFront ==
    /\ WF_vars(\E res \in {"ok", "notOk", "rejected"} : FetchSettles(res))
    /\ WF_vars(TextSettles)
    /\ WF_vars(\E resolved \in BOOLEAN : BlobSettles(resolved))
    /\ WF_vars(AlertDismissed)
    /\ WF_vars(Render)

SpecFront == InitFront /\ [][NextFront]_vars /\ FairFront

Next ==
    \/ Startup
    \/ \E t \in RawTitles, d \in RawDescriptions : FormSubmit(t, d)
    \/ \E t \in RawTitles, d \in RawDescriptions : ApiAddTodo(t, d)
    \/ \E id \in Ids, u \in UpdateInputs : ApiUpdateTodo(id, u)
    \/ \E id \in Ids : ApiDeleteTodo(id)
    \/ \E id \in Ids : ApiToggleComplete(id)
    \/ ApiLoadTodos
    \/ ApiSaveTodos
    \/ \E i \in 1..Len(listEl) : CheckboxChange(i)
    \/ \E i \in 1..Len(listEl) : DeleteClick(i)
    \/ \E i \in 1..Len(listEl) : EditClick(i)
    \/ \E i \in 1..Len(listEl), t \in RawTitles, d \in RawDescriptions : Commit(i, t, d)
    \/ \E i \in 1..Len(listEl) : Cancel(i)
    \/ \E i \in 1..Len(listEl) : AnimationEnd(i)
    \/ \E key \in Filters : FilterClick(key)
    \/ AppStartup
    \/ \E value \in RawTitles : AppSubmit(value)
    \/ \E i \in 1..Len(todoList) : AppToggleClick(i)
    \/ \E i \in 1..Len(todoList), answer \in PromptResults : AppEditClick(i, answer)
    \/ \E i \in 1..Len(todoList) : AppDeleteClick(i)
    \/ AppClearClick
    \/ \E id \in Ids : AppCallDeleteTodo(id)
    \/ AppCallLoadTodos

Spec == Init /\ [][Next]_vars

\* script.js opened on the entry an earlier session wrote for two tasks, and
\* the handlers that change the collection or the filter: with the task
\* created in the session the collection holds up to three tasks.
TwoStored ==
    ArrayText(<< [id |-> 0, title |-> <<"a">>, description |-> <<"d">>,
                  completed |-> TRUE, createdAt |-> 0],
                 [id |-> MaxUUID + 1, title |-> <<"b">>, description |-> << >>,
                  completed |-> FALSE, createdAt |-> 0] >>)

InitOrder ==
    /\ page = "script.js"
    /\ todos = << >>
    /\ currentFilter = "all"
    /\ storage = TwoStored
    /\ listEl = << >>
    /\ appTodos = << >>
    /\ appStorage = NoEntry
    /\ todoList = << >>
    /\ booted = FALSE
    /\ uuids = 0
    /\ writeFailures = 0
    /\ lastEvent = [op |-> "none", id |-> -1, blank |-> FALSE]
    /\ ledger = << >>
    /\ FrontInitial

\* The `updates` objects passed to updateTodo in these behaviours.
OrderUpdates == { [title |-> <<" ", "b", " ">>] }

NextOrder ==
    \/ Startup
    \/ \E t \in RawTitles, d \in RawDescriptions : FormSubmit(t, d)
    \/ \E id \in Ids, u \in OrderUpdates : ApiUpdateTodo(id, u)
    \/ \E id \in Ids : ApiDeleteTodo(id)
    \/ \E id \in Ids : ApiToggleComplete(id)
    \/ \E i \in 1..Len(listEl) : DeleteClick(i)
    \/ \E key \in Filters : FilterClick(key)

SpecOrder == InitOrder /\ [][NextOrder]_vars

----------------------------------------------------------------------------
(* Properties *)

TodoIds(ts) == {ts[i].id : i \in 1..Len(ts)}
ListIds(list) == {list[i].id : i \in 1..Len(list)}
StoredIds(st) == {st.items[i].id : i \in 1..Len(st.items)}

\* The positions of the tasks a filter value lets through.
Kept(ts, f) ==
    {i \in 1..Len(ts) :
        \/ f = "all"
        \/ f = "active" /\ ts[i].completed = FALSE
        \/ f = "completed" /\ ts[i].completed = TRUE}

\* The k-th smallest member of a set of positions.
Nth(S, k) == CHOOSE i \in S : Cardinality({j \in S : j <= i}) = k

\* `list` shows exactly the tasks of ts that f lets through, one element
\* each, in the order of ts.
Shows(list, ts, f) ==
    /\ Len(list) = Cardinality(Kept(ts, f))
    /\ \A k \in 1..Len(list) :
        LET todo == ts[Nth(Kept(ts, f), k)]
        IN  /\ list[k].id = todo.id
            /\ list[k].title = todo.title
            /\ list[k].completed = todo.completed

\* The handlers that end in renderTodos whatever they are given.
RenderingOps == {"startup", "loadTodos", "filter", "commit", "cancel"}

\* C1 (as claimed): no task of the collection, of the persisted copy or of
\* the rendered list has an empty title, in any reachable state.
C1_NoEmptyTitle ==
    /\ \A i \in 1..Len(todos) : todos[i].title # EmptyString
    /\ \A i \in 1..Len(storage.items) : storage.items[i].title # EmptyString
    /\ \A i \in 1..Len(listEl) : listEl[i].title # EmptyString

\* C2 (as claimed): a commit whose title field trims to the empty string
\* leaves the task in neither the collection, the persisted copy nor the
\* rendered list.
C2_CommitBlankRemovesEverywhere ==
    [][(lastEvent'.op = "commit" /\ lastEvent'.blank)
        => /\ lastEvent'.id \notin TodoIds(todos')
           /\ lastEvent'.id \notin StoredIds(storage')
           /\ lastEvent'.id \notin ListIds(listEl')]_vars

\* C2 (amended): a commit whose title field trims to the empty string leaves
\* the task in neither the collection nor the rendered list, and in the
\* persisted copy neither, provided the storage write of that commit did
\* not fail.
C2_CommitBlankDeletes ==
    [][(lastEvent'.op = "commit" /\ lastEvent'.blank)
        => /\ lastEvent'.id \notin TodoIds(todos')
           /\ lastEvent'.id \notin ListIds(listEl')
           /\ (writeFailures' = writeFailures
                => /\ lastEvent'.id \notin StoredIds(storage')
                   /\ storage' = stringify(todos'))]_vars

\* A blank commit on the task loaded at startup, its write done, with the
\* task created in the session left in all three places.
C2_Witness ==
    /\ lastEvent = [op |-> "commit", id |-> 0, blank |-> TRUE]
    /\ writeFailures = 0
    /\ TodoIds(todos) = {1}
    /\ StoredIds(storage) = {1}
    /\ ListIds(listEl) = {1}

\* C3 (as claimed): updateTodo on an existing id with a title that trims to
\* the empty string removes the task from the collection.
C3_UpdateBlankDeletes ==
    [][(/\ lastEvent'.op = "updateTodo"
        /\ lastEvent'.blank
        /\ lastEvent'.id \in TodoIds(todos))
        => lastEvent'.id \notin TodoIds(todos')]_vars

\* C4 (as claimed): a creation with a blank title, by the form or by addTodo,
\* leaves the collection, the persisted copy and the rendered list unchanged.
C4_BlankCreateChangesNothing ==
    [][(lastEvent'.op \in {"submit", "addTodo"} /\ lastEvent'.blank)
        => UNCHANGED <<todos, storage, listEl>>]_vars

\* C5 (as claimed): after every handler the rendered list holds exactly one
\* element per task that passes the current filter, in collection order.
C5_ListMatchesVisible ==
    booted => Shows(listEl, todos, currentFilter)

\* C6 (as claimed): a task created while the filter is 'completed' gets no
\* element in the rendered list.
C6_NoAppendWhenFilteredOut ==
    [][(/\ lastEvent'.op \in {"submit", "addTodo"}
        /\ currentFilter = "completed"
        /\ lastEvent'.id \in TodoIds(todos') \ TodoIds(todos))
        => lastEvent'.id \notin ListIds(listEl')]_vars

\* C7 (as claimed): once deleteTodo has returned for a displayed task, the
\* rendered list holds no element with that id.
C7_DeleteRemovesElement ==
    [][(/\ lastEvent'.op \in {"delete", "deleteTodo"}
        /\ lastEvent'.id \in TodoIds(todos)
        /\ lastEvent'.id \in ListIds(listEl))
        => lastEvent'.id \notin ListIds(listEl')]_vars

\* Every element whose task is not in the collection carries the class
\* 'removing'.
StaleElementsAreRemoving ==
    \A i \in 1..Len(listEl) :
        listEl[i].id \notin TodoIds(todos) => listEl[i].removing

\* The handlers of the triggers of a list element.
ElementOps == {"checkbox", "delete", "edit", "commit", "cancel"}

\* C7 (amended): once deleteTodo has returned for a displayed task, the task
\* is out of the collection while its element is still in the rendered list,
\* unchanged but for the class 'removing'; an animationend event takes one
\* such element out of the list and renderTodos takes all of them out;
\* meanwhile every element without a task is marked 'removing' and its
\* triggers leave the collection unchanged.
C7_DeleteDefersRemoval ==
    [][/\ (/\ lastEvent'.op \in {"delete", "deleteTodo"}
           /\ lastEvent'.id \in TodoIds(todos)
           /\ lastEvent'.id \in ListIds(listEl))
          => /\ lastEvent'.id \notin TodoIds(todos')
             /\ Len(listEl') = Len(listEl)
             /\ \A k \in 1..Len(listEl) :
                    listEl'[k] = IF k = querySelector(listEl, lastEvent'.id)
                                 THEN [listEl[k] EXCEPT !.removing = TRUE]
                                 ELSE listEl[k]
       /\ lastEvent'.op = "animationend"
          => /\ Len(listEl') = Len(listEl) - 1
             /\ lastEvent'.id \notin TodoIds(todos)
             /\ todos' = todos
       /\ lastEvent'.op \in RenderingOps
          => ListIds(listEl') \subseteq TodoIds(todos')
       /\ (lastEvent'.op \in ElementOps /\ lastEvent'.id \notin TodoIds(todos))
          => todos' = todos
       /\ StaleElementsAreRemoving']_vars

\* The delete button of the first of two displayed tasks has been clicked:
\* the collection holds the second alone, the list still both elements.
C7_Witness ==
    /\ lastEvent.op = "delete"
    /\ Len(todos) = 1
    /\ Len(listEl) = 2
    /\ listEl[1].id = lastEvent.id
    /\ listEl[1].removing
    /\ listEl[2].id = todos[1].id
    /\ ~listEl[2].removing

\* C8: for every reachable collection and every filter value, renderTodos
\* produces exactly the tasks with completed = false under 'active', those
\* with completed = true under 'completed' and all of them under 'all', in
\* collection order; and that is the list a handler ending in renderTodos
\* leaves.
C8_RenderFollowsFilter ==
    /\ \A f \in Filters :
        Shows(renderTodos([Machine EXCEPT !.currentFilter = f]).listEl, todos, f)
    /\ lastEvent.op \in RenderingOps => Shows(listEl, todos, currentFilter)

\* A click on 'active' with a completed task before a task that is not: the
\* list holds the second alone.
C8_Witness ==
    /\ lastEvent.op = "filter"
    /\ currentFilter = "active"
    /\ Len(todos) = 2
    /\ todos[1].completed
    /\ ~todos[2].completed
    /\ ListIds(listEl) = {todos[2].id}

\* C9: every task id created (or loaded) and not deleted is in the
\* collection exactly once, with the title, description and completed value
\* the last operation on it asked for.
C9_StateConvergence ==
    \A id \in DOMAIN ledger :
        /\ Cardinality({i \in 1..Len(todos) : todos[i].id = id}) = 1
        /\ \A i \in 1..Len(todos) :
            todos[i].id = id => Entry(todos[i]) = ledger[id]

\* The loaded task has been deleted; the created one has been retitled,
\* given another description and completed.
C9_Witness ==
    /\ lastEvent.op = "delete"
    /\ lastEvent.id = 0
    /\ DOMAIN ledger = {1}
    /\ ledger[1] = [title |-> <<"b">>, description |-> <<"d">>, completed |-> TRUE]
    /\ Len(todos) = 1

\* C10: for every reachable collection, saveTodos with its write succeeding
\* followed by loadTodos gives the same tasks in the same order, each with
\* the same id, title, description, completed and createdAt.
C10_RoundTrip ==
    \A t \in Clock : loadTodos(saveTodos(Machine, TRUE), t).todos = todos

\* loadTodos has just read back what saveTodos wrote for two tasks, one
\* completed and created in an earlier session, one with an empty title.
C10_Witness ==
    /\ lastEvent.op = "loadTodos"
    /\ storage = stringify(todos)
    /\ Len(todos) = 2
    /\ todos[1].completed
    /\ todos[1].createdAt = 0
    /\ todos[2].title = EmptyString

\* The tasks of ts are the records of the stored array, in its order, each
\* with the value of every property its record has.
EqualsStored(ts, st) ==
    /\ Len(ts) = Len(st.items)
    /\ \A i \in 1..Len(ts) :
        \A key \in DOMAIN st.items[i] : ts[i][key] = st.items[i][key]

\* C11 (as claimed): after loadTodos, of script.js or of app.js, the
\* collection equals the stored sequence when the entry is the text of an
\* array, and is empty when the entry is missing, unparsable or no array,
\* whatever the collection held before.
C11_LoadReplacesCollection ==
    [][/\ lastEvent'.op \in {"startup", "loadTodos"}
          => IF storage.kind = "array" THEN EqualsStored(todos', storage)
             ELSE todos' = << >>
       /\ lastEvent'.op \in {"app.startup", "app.loadTodos"}
          => IF appStorage.kind = "array" THEN EqualsStored(appTodos', appStorage)
             ELSE appTodos' = << >>]_vars

\* The handlers that call addTodo, updateTodo, deleteTodo or toggleComplete.
MutatingOps ==
    {"submit", "addTodo", "updateTodo", "deleteTodo", "toggleComplete",
     "checkbox", "delete", "commit"}

\* C12: when addTodo, updateTodo, deleteTodo or toggleComplete has changed
\* the collection and its storage write did not fail, the persisted copy is
\* the serialization of the whole collection: the same tasks in the same
\* order with the same field values.
C12_PersistedAfterMutation ==
    [][(/\ lastEvent'.op \in MutatingOps
        /\ todos' # todos
        /\ writeFailures' = writeFailures)
        => /\ storage' = stringify(todos')
           /\ EqualsStored(todos', storage')]_vars

\* A task has been created after the loaded one was retitled: the entry
\* holds both, the second as created.
C12_Witness ==
    /\ lastEvent.op = "addTodo"
    /\ Len(todos) = 2
    /\ todos[1].title = <<"b">>
    /\ todos[2].id = lastEvent.id
    /\ storage = stringify(todos)
    /\ Len(storage.items) = 2

\* C13: when the storage write of a create, update, toggle or delete fails,
\* the handler still runs to its end.  The entry keeps its value; the
\* collection holds the mutation (the created task last, the deleted task
\* gone, the updated or toggled task with the values asked for); and the
\* list is updated as after a successful write: re-rendered from the
\* collection and the filter after an update, a toggle or a commit, extended
\* by the element of the created task, or with the element of the deleted
\* task marked 'removing'.
C13_FailedWriteKeepsFlow ==
    [][(lastEvent'.op \in MutatingOps /\ writeFailures' = writeFailures + 1)
        => LET op == lastEvent'.op
               id == lastEvent'.id
           IN  /\ storage' = storage
               /\ IF id \in DOMAIN ledger'
                  THEN \E i \in 1..Len(todos') :
                        /\ todos'[i].id = id
                        /\ Entry(todos'[i]) = ledger'[id]
                  ELSE id \notin TodoIds(todos')
               /\ op \in {"updateTodo", "toggleComplete", "checkbox", "commit"}
                    => Shows(listEl', todos', currentFilter')
               /\ op \in {"submit", "addTodo"}
                    => /\ todos'[Len(todos')].id = id
                       /\ SubSeq(listEl', 1, Len(listEl)) = listEl
                       /\ Len(listEl') = Len(listEl) + 1
                       /\ listEl'[Len(listEl')] = createTodoElement(todos'[Len(todos')])
               /\ op \in {"delete", "deleteTodo"}
                    => /\ Len(listEl') = Len(listEl)
                       /\ \A k \in 1..Len(listEl) :
                            listEl'[k] = IF k = querySelector(listEl, id)
                                         THEN [listEl[k] EXCEPT !.removing = TRUE]
                                         ELSE listEl[k]]_vars

\* The checkbox of the second of two displayed tasks has been clicked and the
\* write has failed: the entry still holds the task as not completed, while
\* the collection and the re-rendered list hold it as completed.
C13_Witness ==
    /\ lastEvent.op = "checkbox"
    /\ writeFailures = 1
    /\ Len(todos) = 2
    /\ todos[2].id = lastEvent.id
    /\ todos[2].completed
    /\ Len(storage.items) = 2
    /\ ~storage.items[2].completed
    /\ Len(listEl) = 2
    /\ listEl[2].completed

\* C14: deleteTodo(id), of script.js or of app.js, called by a trigger or
\* directly, with an id that no task of the collection has, leaves the
\* collection as it is: the same tasks in the same order.
C14_DeleteMissingIsNoOp ==
    [][/\ (lastEvent'.op \in {"delete", "deleteTodo"}
           /\ lastEvent'.id \notin TodoIds(todos))
          => todos' = todos
       /\ (lastEvent'.op \in {"app.delete", "app.deleteTodo"}
           /\ lastEvent'.id \notin TodoIds(appTodos))
          => appTodos' = appTodos]_vars

\* deleteTodo of app.js has been called with an id no todo has, and the
\* array holds its two todos.
C14_Witness ==
    /\ lastEvent.op = "app.deleteTodo"
    /\ lastEvent.id \notin TodoIds(appTodos)
    /\ Len(appTodos) = 2
    /\ appTodos[1].id = 0

\* C15: updateTodo(id, updates) and toggleComplete(id) with an id that no
\* task of the collection has leave the collection, the persisted copy and
\* the rendered list as they are.
C15_UpdateToggleMissingIsNoOp ==
    [][(/\ lastEvent'.op \in {"updateTodo", "toggleComplete", "checkbox"}
        /\ lastEvent'.id \notin TodoIds(todos))
        => UNCHANGED <<todos, storage, listEl, writeFailures>>]_vars

\* updateTodo has been called with the id of a deleted task whose element is
\* still in the list, while the entry, after a failed write, still holds the
\* task: neither the list nor the entry has been brought up to date.
C15_Witness ==
    /\ lastEvent.op = "updateTodo"
    /\ lastEvent.id \notin TodoIds(todos)
    /\ lastEvent.id \in ListIds(listEl)
    /\ lastEvent.id \in StoredIds(storage)
    /\ Len(todos) = 1

\* C16: a commit, with whatever title, or a cancel of the edit session of an
\* element whose task has been deleted puts no task with that id into the
\* collection or into the persisted copy and changes no task of the
\* collection; the entry stays as it is or becomes the serialization of the
\* collection.
C16_NoResurrectionByEdit ==
    [][(/\ lastEvent'.op \in {"commit", "cancel"}
        /\ lastEvent'.id \notin TodoIds(todos))
        => /\ todos' = todos
           /\ lastEvent'.id \notin StoredIds(storage)
                => lastEvent'.id \notin StoredIds(storage')
           /\ storage' \in {storage, stringify(todos)}]_vars

\* The session of a deleted task has been committed with a title that is not
\* blank: the collection and the entry hold the other task alone, and the
\* re-rendered list no longer has the element.
C16_Witness ==
    /\ lastEvent.op = "commit"
    /\ ~lastEvent.blank
    /\ lastEvent.id \notin TodoIds(todos)
    /\ Len(todos) = 1
    /\ storage = stringify(todos)
    /\ ListIds(listEl) = TodoIds(todos)

\* C17: entering an edit session and cancelling it leave the collection and
\* the persisted copy as they are; after the cancel the list is the
\* rendering of the collection under the current filter, so that no element,
\* that of the cancelled session included, is in edit mode.
C17_CancelChangesNothing ==
    [][/\ lastEvent'.op \in {"edit", "cancel"}
          => UNCHANGED <<todos, storage, writeFailures, currentFilter>>
       /\ lastEvent'.op = "cancel"
          => /\ listEl' = renderTodos(Machine).listEl
             /\ Shows(listEl', todos, currentFilter)
             /\ \A k \in 1..Len(listEl') : ~listEl'[k].editing]_vars

\* A session on the second of two tasks has been cancelled while the entry,
\* after a failed write, holds one task only: the entry still does, and the
\* list shows both tasks.
C17_Witness ==
    /\ lastEvent.op = "cancel"
    /\ Len(todos) = 2
    /\ todos[2].id = lastEvent.id
    /\ Len(storage.items) = 1
    /\ Len(listEl) = 2
    /\ \A k \in 1..2 : ~listEl[k].editing

\* C18 (as claimed): committing or cancelling the edit session of one item
\* leaves every other item that is in edit mode in edit mode.
C18_SessionsIndependent ==
    [][lastEvent'.op \in {"commit", "cancel"}
        => \A j \in 1..Len(listEl) :
            (listEl[j].editing /\ listEl[j].id # lastEvent'.id)
                => \E k \in 1..Len(listEl') :
                    /\ listEl'[k].id = listEl[j].id
                    /\ listEl'[k].editing]_vars

\* The ids of the tasks of ts, in the order of ts.
IdSeq(ts) == [i \in 1..Len(ts) |-> ts[i].id]

C20_InsertionOrderKept ==
    [][/\ (lastEvent'.op \in {"submit", "addTodo"} /\ todos' # todos)
          => /\ Len(todos') = Len(todos) + 1
             /\ SubSeq(todos', 1, Len(todos)) = todos
             /\ todos'[Len(todos')].id = lastEvent'.id
       /\ lastEvent'.op \in {"updateTodo", "toggleComplete", "checkbox", "commit",
                             "deleteTodo", "delete", "filter"}
          => IdSeq(todos') =
                SelectSeq(IdSeq(todos), LAMBDA id : id \in TodoIds(todos'))
       /\ lastEvent'.op \in {"updateTodo", "toggleComplete", "checkbox"}
          => Len(todos') = Len(todos)
       /\ lastEvent'.op = "filter" => todos' = todos]_vars

\* The second of three tasks has been deleted: the first task and the task
\* created in the session remain, in that order.
C20_Witness ==
    /\ lastEvent.op \in {"delete", "deleteTodo"}
    /\ lastEvent.id = MaxUUID + 1
    /\ IdSeq(todos) = <<0, 1>>

\* `after` is `before` with, in the task of the given id alone, the fields
\* that `updates` has: title and description trimmed, completed as given.
OnlyGivenFields(after, before, id, updates) ==
    /\ Len(after) = Len(before)
    /\ \A i \in 1..Len(before) :
        IF before[i].id # id THEN after[i] = before[i]
        ELSE /\ after[i].id = before[i].id
             /\ after[i].createdAt = before[i].createdAt
             /\ after[i].title = IF Has(updates, "title") THEN trim(updates.title)
                                 ELSE before[i].title
             /\ after[i].description = IF Has(updates, "description")
                                       THEN trim(updates.description)
                                       ELSE before[i].description
             /\ after[i].completed = IF Has(updates, "completed")
                                     THEN updates.completed
                                     ELSE before[i].completed

\* C21: updateTodo(id, updates) on an id of the collection changes, in that
\* task alone, the fields among title, description and completed that
\* updates has, the strings stored trimmed; its id, its createdAt, its other
\* fields and the other tasks stay.  toggleComplete(id) changes the
\* completed flag of that task and nothing else.  Stated of every call
\* that can be made in a reachable state, whether or not its write fails.
C21_UpdateTouchesGivenFieldsOnly ==
    /\ \A id \in TodoIds(todos), u \in UpdateInputs, ok \in BOOLEAN :
        OnlyGivenFields(updateTodo(Machine, id, u, ok).todos, todos, id, u)
    /\ \A id \in TodoIds(todos), ok \in BOOLEAN :
        OnlyGivenFields(toggleComplete(Machine, id, ok).todos, todos, id,
            [completed |-> ~todos[findIndex(todos, id)].completed])

\* updateTodo has given the first of two tasks, loaded completed and with
\* its description, another title and nothing else.
C21_Witness ==
    /\ lastEvent = [op |-> "updateTodo", id |-> 0, blank |-> FALSE]
    /\ Len(todos) = 2
    /\ todos[1] = [id |-> 0, title |-> <<"b">>, description |-> <<"d">>,
                   completed |-> TRUE, createdAt |-> 0]
    /\ todos[2].title = <<"a">>

\* C22: currentFilter is 'all' when the script starts and one of 'all',
\* 'active', 'completed' ever after; a click on a filter button, and
\* renderTodos under any filter value, leave the collection and the
\* persisted copy as they are.
C22_FilterIsViewOnly ==
    /\ currentFilter = "all"
    /\ [](currentFilter \in Filters)
    /\ [][lastEvent'.op = "filter"
            => /\ UNCHANGED <<todos, storage, writeFailures>>
               /\ \A f \in Filters :
                    LET m == renderTodos([Machine EXCEPT !.currentFilter = f])
                    IN  m.todos = todos /\ m.storage = storage]_vars

\* 'completed' has been clicked with a completed task before one that is
\* not: the collection and the entry hold both, the list the first alone.
C22_Witness ==
    /\ lastEvent.op = "filter"
    /\ currentFilter = "completed"
    /\ Len(todos) = 2
    /\ todos[1].completed /\ ~todos[2].completed
    /\ storage = stringify(todos)
    /\ ListIds(listEl) = {todos[1].id}

\* The handler of the step calls saveTodos: addTodo and deleteTodo always
\* do, updateTodo and toggleComplete when they find the id.
CallsSave ==
    \/ lastEvent'.op \in {"addTodo", "deleteTodo", "delete", "saveTodos"}
    \/ lastEvent'.op = "submit" /\ ~lastEvent'.blank
    \/ lastEvent'.op = "commit" /\ lastEvent'.blank
    \/ /\ lastEvent'.op \in {"updateTodo", "toggleComplete", "checkbox", "commit"}
       /\ lastEvent'.id \in TodoIds(todos)

\* C23: a handler whose write fails leaves the entry as it was and the
\* collection with what was asked of it; a handler whose write succeeds
\* leaves the entry equal to the serialization of the whole collection, so
\* that every task holds in the entry too the values last asked for,
\* those of changes whose own writes failed included.
C23_NextWriteCatchesUp ==
    [][CallsSave
        => IF writeFailures' # writeFailures
           THEN /\ storage' = storage
                /\ \A id \in DOMAIN ledger' :
                    \E i \in 1..Len(todos') :
                        todos'[i].id = id /\ Entry(todos'[i]) = ledger'[id]
           ELSE /\ storage' = stringify(todos')
                /\ StoredIds(storage') = DOMAIN ledger'
                /\ \A i \in 1..Len(storage'.items) :
                    Entry(storage'.items[i]) = ledger'[storage'.items[i].id]]_vars

\* The creation of a task has been written after a write failed: the entry
\* holds the new task and the loaded one, the latter with the title it was
\* given in the session.
C23_Witness ==
    /\ lastEvent = [op |-> "submit", id |-> 1, blank |-> FALSE]
    /\ writeFailures = 1
    /\ Len(storage.items) = 2
    /\ storage.items[1].id = 0
    /\ storage.items[1].title = <<"b">>
    /\ storage = stringify(todos)

\* `list` has one element per todo of ts, in the order of ts, each with the
\* id, the text and the completed flag of its todo.
AppShows(list, ts) ==
    /\ Len(list) = Len(ts)
    /\ \A i \in 1..Len(ts) :
        /\ list[i].id = ts[i].id
        /\ list[i].text = ts[i].text
        /\ list[i].completed = ts[i].completed

\* The handler of the step has called addTodo, editTodo, deleteTodo,
\* toggleComplete or clearCompleted of app.js.
AppCalled ==
    \/ lastEvent'.op \in {"app.toggle", "app.delete", "app.deleteTodo", "app.clear"}
    \/ lastEvent'.op = "app.submit" /\ ~lastEvent'.blank
    \/ lastEvent'.op = "app.edit" /\ ~lastEvent'.blank
                                  /\ lastEvent'.id \in TodoIds(appTodos)

AppRendered ==
    \/ lastEvent'.op \in {"app.delete", "app.deleteTodo", "app.clear"}
    \/ lastEvent'.op = "app.submit" /\ ~lastEvent'.blank
    \/ /\ lastEvent'.op = "app.toggle" \/ (lastEvent'.op = "app.edit" /\ ~lastEvent'.blank)
       /\ lastEvent'.id \in TodoIds(appTodos)

C25_LoadingBracketsRequest ==
    /\ [](call.pc # "idle" => loading)
    /\ [](loading => disabled)
    /\ [][started' # started
            => /\ call.pc = "idle" /\ ~loading
               /\ call'.pc = "fetch" /\ loading']_vars
    /\ [][loading /\ ~loading' => finished' = finished + 1]_vars
    /\ \A n \in 1..MaxRequests : (started = n) ~> (finished = n /\ ~loading)

\* The second call, begun after the first was over, waits in the catch
\* block for the alert box to be closed: loading is true and the button
\* disabled.
C25_Witness ==
    /\ started = 2
    /\ finished = 1
    /\ call.pc = "alert"
    /\ call.body.prompt = <<"x">>
    /\ loading
    /\ disabled

====
